---- MODULE Spec2Model ----
(***************************************************************************)
(* Model of the RCCL revision sweep (scripts/perfmetricsRun.py) and of the *)
(* helpers it calls in scripts/common.py: revision enumeration, the build  *)
(* and benchmark wrappers, the benchmark output parser, the per-revision   *)
(* backup log and the JSON result checkpoint.                              *)
(*                                                                         *)
(* Text is a sequence of one-character strings.  Files are either Absent   *)
(* or hold a text (backup logs) or a sequence of JSON chunks (checkpoint). *)
(***************************************************************************)
EXTENDS Integers, Sequences, FiniteSets, TLC

(***************************************************************************)
(* Bounds of the model.                                                    *)
(***************************************************************************)
\* largest number of revisions the enumeration returns in the model
MaxRevs == 5
\* largest number of chunks of a checkpoint write that is cut short
MaxPartial == 1

(***************************************************************************)
(* Program constants.                                                      *)
(***************************************************************************)
\* perfmetricsRun.py:53   if idx%4 == 0
CheckpointInterval == 4
\* perfmetricsRun.py:39   get_last_n_commit_hashes(rccl_path, 200)
NumCommits == 200
\* perfmetricsRun.py:27   BUILD_RCCL = 1
BUILD_RCCL == 1

(***************************************************************************)
(* Characters and text.                                                    *)
(***************************************************************************)
NL == "\n"
Digits == {"0", "1", "2", "3", "4", "5", "6", "7", "8", "9"}
\* characters str.isdigit() accepts: the decimal digits and digit-like
\* characters such as SUPERSCRIPT TWO, which int() rejects
SuperTwo == "^2"
IsDigitChars == Digits \cup {SuperTwo}
Whitespace == {" ", "\t", NL}

DigitVal(c) ==
    CASE c = "0" -> 0 [] c = "1" -> 1 [] c = "2" -> 2 [] c = "3" -> 3
      [] c = "4" -> 4 [] c = "5" -> 5 [] c = "6" -> 6 [] c = "7" -> 7
      [] c = "8" -> 8 [] c = "9" -> 9

RECURSIVE JoinTokens(_)
\* the tokens separated by one blank
JoinTokens(toks) ==
    IF toks = <<>> THEN <<>>
    ELSE IF Len(toks) = 1 THEN Head(toks)
    ELSE Head(toks) \o <<" ">> \o JoinTokens(Tail(toks))

RECURSIVE IsSubText(_, _)
\* sub occurs in text as a contiguous run of characters
IsSubText(sub, text) ==
    IF Len(sub) > Len(text) THEN FALSE
    ELSE IF SubSeq(text, 1, Len(sub)) = sub THEN TRUE
    ELSE IsSubText(sub, Tail(text))

IsPrefix(p, s) == Len(p) <= Len(s) /\ SubSeq(s, 1, Len(p)) = p

(***************************************************************************)
(* parse_rccl_tests_output (common.py:231-264).                            *)
(***************************************************************************)
RECURSIVE SplitLines(_)
\* io.StringIO iteration: each line keeps its terminating newline
SplitLines(text) ==
    IF text = <<>> THEN <<>>
    ELSE LET RECURSIVE LineEnd(_)
             LineEnd(k) == IF k > Len(text) THEN Len(text)
                           ELSE IF text[k] = NL THEN k
                           ELSE LineEnd(k + 1)
             e == LineEnd(1)
         IN  <<SubSeq(text, 1, e)>> \o SplitLines(SubSeq(text, e + 1, Len(text)))

RECURSIVE Split(_)
\* str.split(): the maximal runs of non-whitespace characters
Split(line) ==
    IF line = <<>> THEN <<>>
    ELSE IF Head(line) \in Whitespace THEN Split(Tail(line))
    ELSE LET RECURSIVE TokEnd(_)
             TokEnd(k) == IF k > Len(line) THEN Len(line)
                          ELSE IF line[k] \in Whitespace THEN k - 1
                          ELSE TokEnd(k + 1)
             e == TokEnd(1)
         IN  <<SubSeq(line, 1, e)>> \o Split(SubSeq(line, e + 1, Len(line)))

AllDigits(s) == Len(s) >= 1 /\ \A k \in 1..Len(s) : s[k] \in Digits

\* regex  -?\d+  against the whole token
IsIntTok(t) ==
    IF Len(t) >= 1 /\ t[1] = "-" THEN AllDigits(Tail(t)) ELSE AllDigits(t)

\* regex  -?\d+(?:\.\d+)?  against the whole token
IsNumTok(t) ==
    LET u == IF Len(t) >= 1 /\ t[1] = "-" THEN Tail(t) ELSE t
    IN  \/ AllDigits(u)
        \/ \E k \in 2..(Len(u) - 1) :
              /\ u[k] = "."
              /\ AllDigits(SubSeq(u, 1, k - 1))
              /\ AllDigits(SubSeq(u, k + 1, Len(u)))

\* regex  ((-?\d+)|N/A)  as the last group of a prefix match: some prefix of
\* the token matches
HasErrPrefix(t) ==
    \/ Len(t) >= 1 /\ t[1] \in Digits
    \/ Len(t) >= 2 /\ t[1] = "-" /\ t[2] \in Digits
    \/ IsPrefix(<<"N", "/", "A">>, t)

\* regexstr1 (common.py:233): pattern1.match(line), a prefix match
Match1(line) ==
    LET c == Split(line)
    IN  /\ Len(c) >= 13
        /\ IsIntTok(c[1]) /\ IsIntTok(c[2])
        /\ IsIntTok(c[5])
        /\ IsNumTok(c[6]) /\ IsNumTok(c[7]) /\ IsNumTok(c[8])
        /\ IsIntTok(c[9])
        /\ IsNumTok(c[10]) /\ IsNumTok(c[11]) /\ IsNumTok(c[12])
        /\ HasErrPrefix(c[13])

\* regexstr2 (common.py:234): pattern2.match(line), a prefix match
Match2(line) ==
    LET c == Split(line)
    IN  /\ Len(c) >= 12
        /\ IsIntTok(c[1]) /\ IsIntTok(c[2])
        /\ IsIntTok(c[4])
        /\ IsNumTok(c[5]) /\ IsNumTok(c[6]) /\ IsNumTok(c[7])
        /\ IsIntTok(c[8])
        /\ IsNumTok(c[9]) /\ IsNumTok(c[10]) /\ IsNumTok(c[11])
        /\ HasErrPrefix(c[12])

\* line.startswith('##')
StartsWithComment(line) == IsPrefix(<<"#", "#">>, line)

RECURSIVE DigitsVal(_, _)
DigitsVal(s, acc) ==
    IF s = <<>> THEN acc ELSE DigitsVal(Tail(s), acc * 10 + DigitVal(Head(s)))

\* int() accepts the token: an optional sign and decimal digits
IntParses(t) == IsIntTok(t) \/ (Len(t) >= 2 /\ t[1] = "+" /\ AllDigits(Tail(t)))

\* int(token) for a token int() accepts
ToInt(t) ==
    IF t[1] = "-" THEN 0 - DigitsVal(Tail(t), 0)
    ELSE IF t[1] = "+" THEN DigitsVal(Tail(t), 0)
    ELSE DigitsVal(t, 0)

RECURSIVE StripLeadingZeros(_)
StripLeadingZeros(s) ==
    IF Len(s) >= 2 /\ s[1] = "0" THEN StripLeadingZeros(Tail(s)) ELSE s

RECURSIVE DigitsLeq(_, _)
\* a <= b for two digit strings of equal length
DigitsLeq(a, b) ==
    IF a = <<>> THEN TRUE
    ELSE IF DigitVal(Head(a)) # DigitVal(Head(b))
         THEN DigitVal(Head(a)) < DigitVal(Head(b))
         ELSE DigitsLeq(Tail(a), Tail(b))

\* 2^63 - 1 and 2^63, the largest magnitudes of a signed 64-bit integer
Int64MaxDigits ==
    <<"9", "2", "2", "3", "3", "7", "2", "0", "3", "6",
      "8", "5", "4", "7", "7", "5", "8", "0", "7">>
Int64MinDigits ==
    <<"9", "2", "2", "3", "3", "7", "2", "0", "3", "6",
      "8", "5", "4", "7", "7", "5", "8", "0", "8">>

\* the integer written by the token fits a numpy 64-bit integer
InInt64Range(t) ==
    LET neg == t[1] = "-"
        u   == StripLeadingZeros(IF t[1] \in {"-", "+"} THEN Tail(t) ELSE t)
    IN  \/ Len(u) < Len(Int64MaxDigits)
        \/ /\ Len(u) = Len(Int64MaxDigits)
           /\ DigitsLeq(u, IF neg THEN Int64MinDigits ELSE Int64MaxDigits)

\* the exception np.int64(token) raises, or "none"
Int64Error(t) ==
    IF ~IntParses(t) THEN "ValueError"
    ELSE IF ~InInt64Range(t) THEN "OverflowError"
    ELSE "none"

\* a numpy 64-bit integer and a Python int
I64(n) == [ty |-> "int64", v |-> n]
PyInt(n) == [ty |-> "int", v |-> n]

\* np.int64(token)
ToInt64(t) == I64(ToInt(t))

RECURSIVE StripZeros(_)
StripZeros(s) ==
    IF s # <<>> /\ s[Len(s)] = "0" THEN StripZeros(SubSeq(s, 1, Len(s) - 1)) ELSE s

\* float(token) for a token matching -?\d+(?:\.\d+)? : the value m / 10^e
\* with the trailing zeros of the fraction dropped
ToFloat(t) ==
    LET neg  == t[1] = "-"
        u    == IF neg THEN Tail(t) ELSE t
        dot  == IF \E k \in 1..Len(u) : u[k] = "."
                THEN CHOOSE k \in 1..Len(u) : u[k] = "." ELSE Len(u) + 1
        ip   == SubSeq(u, 1, dot - 1)
        fp   == StripZeros(SubSeq(u, dot + 1, Len(u)))
        m    == DigitsVal(ip \o fp, 0)
    IN  [m |-> IF neg THEN 0 - m ELSE m, e |-> Len(fp)]

\* str.isdigit()
IsDigitStr(t) == Len(t) >= 1 /\ \A k \in 1..Len(t) : t[k] \in IsDigitChars

\* the guard of op_wrong / ip_wrong (common.py:257, 261)
WrongIsNumeric(t) ==
    IsDigitStr(t) \/ (IF IsPrefix(<<"-">>, t) THEN IsDigitStr(Tail(t)) ELSE FALSE)

\* op_wrong / ip_wrong: the parsed integer or 0
WrongCount(t) == IF WrongIsNumeric(t) THEN ToInt64(t) ELSE PyInt(0)

\* the exception the conversion of op_wrong / ip_wrong raises, or "none"
WrongError(t) == IF WrongIsNumeric(t) THEN Int64Error(t) ELSE "none"

\* the exception the first failing conversion of the entry raises, in the
\* order the dictionary is built, or "none"
EntryError(c, i) ==
    LET errs == <<Int64Error(c[1]), Int64Error(c[2]), Int64Error(c[4 + i]),
                  WrongError(c[8 + i]), WrongError(c[12 + i])>>
        bad  == {k \in 1..Len(errs) : errs[k] # "none"}
    IN  IF bad = {} THEN "none"
        ELSE errs[CHOOSE k \in bad : \A j \in bad : k <= j]

\* a conversion of the entry raises
EntryRaises(c, i) == EntryError(c, i) # "none"

\* the entry dictionary built at common.py:248-262
Entry(c, i) ==
    [size     |-> ToInt64(c[1]),
     elements |-> ToInt64(c[2]),
     type     |-> c[3],
     redop    |-> IF i = 1 THEN c[3 + i] ELSE <<"n", "o", "n", "e">>,
     root     |-> ToInt64(c[4 + i]),
     op_time  |-> ToFloat(c[5 + i]),
     op_algbw |-> ToFloat(c[6 + i]),
     op_busbw |-> ToFloat(c[7 + i]),
     op_wrong |-> WrongCount(c[8 + i]),
     ip_time  |-> ToFloat(c[9 + i]),
     ip_algbw |-> ToFloat(c[10 + i]),
     ip_busbw |-> ToFloat(c[11 + i]),
     ip_wrong |-> WrongCount(c[12 + i])]

\* line is skipped by the test at common.py:239
LineSkipped(line) == StartsWithComment(line) \/ ~(Match1(line) \/ Match2(line))

\* variant: the layout without the reduction operator is tried first
LayoutShift_PreferB(line) == IF Match2(line) THEN 0 ELSE 1

LayoutShift(line) == IF Match1(line) THEN 1 ELSE 0

RECURSIVE ParseLines_Reversed(_)
\* variant: each entry is put in front of the entries of the earlier lines
ParseLines_Reversed(lines) ==
    IF lines = <<>> THEN [raised |-> FALSE, exc |-> "none", data |-> <<>>]
    ELSE LET line == Head(lines)
             rest == ParseLines_Reversed(Tail(lines))
             c    == Split(line)
             i    == LayoutShift(line)
         IN  IF LineSkipped(line) THEN rest
             ELSE IF EntryRaises(c, i)
                  THEN [raised |-> TRUE, exc |-> EntryError(c, i), data |-> <<>>]
             ELSE IF rest.raised THEN rest
             ELSE [raised |-> FALSE, exc |-> "none",
                   data |-> rest.data \o <<Entry(c, i)>>]

RECURSIVE ParseLines(_)
\* the loop of parse_rccl_tests_output over the lines; the result is
\* [raised |-> TRUE] with the exception when a conversion raises, else the
\* data list
ParseLines(lines) ==
    IF lines = <<>> THEN [raised |-> FALSE, exc |-> "none", data |-> <<>>]
    ELSE LET line == Head(lines)
             rest == ParseLines(Tail(lines))
             c    == Split(line)
             i    == LayoutShift(line)
         IN  IF LineSkipped(line) THEN rest
             ELSE IF EntryRaises(c, i)
                  THEN [raised |-> TRUE, exc |-> EntryError(c, i), data |-> <<>>]
             ELSE IF rest.raised THEN rest
             ELSE [raised |-> FALSE, exc |-> "none",
                   data |-> <<Entry(c, i)>> \o rest.data]

parse_rccl_tests_output(text) == ParseLines(SplitLines(text))

(***************************************************************************)
(* External inputs of the model: revision ids, build and benchmark output. *)
(***************************************************************************)
RECURSIVE IntToStr(_)
\* str(n) for a non-negative integer
IntToStr(n) ==
    LET d == CHOOSE c \in Digits : DigitVal(c) = n % 10
    IN  IF n < 10 THEN <<d>> ELSE IntToStr(n \div 10) \o <<d>>

\* the i-th abbreviated commit hash printed by git log, oldest first
CommitOf(i) == <<"c">> \o IntToStr(i)

\* a Layout A row of the benchmark
RowA ==
    JoinTokens(<< <<"8">>, <<"2">>, <<"f">>, <<"s">>, <<"-", "1">>,
                  <<"1", ".", "5">>, <<"2">>, <<"3">>, <<"0">>,
                  <<"4">>, <<"5">>, <<"6">>, <<"N", "/", "A">> >>)
\* a Layout B row whose last token passes str.isdigit() but not int()
RowBad ==
    JoinTokens(<< <<"4">>, <<"1">>, <<"f">>, <<"0">>,
                  <<"1">>, <<"2">>, <<"3">>, <<"7">>,
                  <<"4">>, <<"5">>, <<"6">>, <<"5", SuperTwo>> >>)
\* a banner line of the benchmark
Banner == <<"#", " ", "x">>

\* texts the benchmark process can print (stdout and stderr combined)
OutBanner == Banner \o <<NL>>
OutData == Banner \o <<NL>> \o RowA
OutBad == RowBad \o <<NL>>
RunOutputs == {OutBanner, OutData, OutBad}

(***************************************************************************)
(* Texts given to the parser on its own.                                   *)
(***************************************************************************)
\* at most this many lines in a text
MaxLines == 3

NA == <<"N", "/", "A">>

\* the tokens of a Layout A row with error-count tokens o and p
FieldsA(o, p) ==
    << <<"8">>, <<"2">>, <<"f">>, <<"s">>, <<"-", "1">>,
       <<"1", ".", "5">>, <<"2">>, <<"3">>, o,
       <<"4">>, <<"5">>, <<"6">>, p >>

\* the tokens of a Layout B row of size z with error-count tokens o and p
FieldsB(z, o, p) ==
    << z, <<"1">>, <<"i">>, <<"0">>,
       <<"1">>, <<"2", ".", "5", "0">>, <<"3">>, o,
       <<"4">>, <<"5">>, <<"6">>, p >>

\* tokens printed in the two "#wrong" columns
ErrTokens ==
    { <<"0">>, <<"7">>, <<"-", "3">>, NA, <<"a", "b">>, <<"5", "a">>,
      NA \o <<"x">> }

\* one-line texts: a row of either layout with every pair of "#wrong" tokens
ErrTexts ==
    {JoinTokens(FieldsA(o, p)) \o <<NL>> : o \in ErrTokens, p \in ErrTokens}
    \cup
    {JoinTokens(FieldsB(<<"4">>, o, p)) \o <<NL>> : o \in ErrTokens, p \in ErrTokens}

LineA == JoinTokens(FieldsA(<<"0">>, NA))
LineB == JoinTokens(FieldsB(<<"4">>, <<"7">>, <<"0">>))
\* 13 tokens that match regexstr1, and regexstr2 as a prefix
LineBoth == JoinTokens(FieldsB(<<"6">>, <<"7">>, <<"0">>) \o << <<"9">> >>)
\* a Layout B row followed by one more token
LineTrailing == JoinTokens(FieldsB(<<"5">>, <<"7">>, <<"0">>) \o << <<"x">> >>)
\* a comment line with the tokens of a Layout A row
LineComment == <<"#", "#", " ">> \o LineA
\* the first 11 tokens of a Layout B row
LineShort == JoinTokens(SubSeq(FieldsB(<<"4">>, <<"7">>, <<"0">>), 1, 11))
\* a Layout B row whose size is 10^19
LineBig ==
    JoinTokens(FieldsB(<<"1", "0", "0", "0", "0", "0", "0", "0", "0", "0",
                         "0", "0", "0", "0", "0", "0", "0", "0", "0", "0">>,
                       <<"7">>, <<"0">>))

SampleLines ==
    {LineA, LineB, LineBoth, LineTrailing, LineComment, LineShort, LineBig,
     RowBad, Banner}

RECURSIVE TextOf(_)
\* the lines, each ended by a newline
TextOf(lines) ==
    IF lines = <<>> THEN <<>> ELSE Head(lines) \o <<NL>> \o TextOf(Tail(lines))

MultiTexts ==
    UNION { {TextOf(ls) : ls \in [1..n -> SampleLines]} : n \in 0..MaxLines }

ParseTexts == ErrTexts \cup MultiTexts

\* texts install.sh can print before it exits non-zero
BuildOutputs == {<<"E", "1">>}

(***************************************************************************)
(* Files.                                                                  *)
(***************************************************************************)
Absent == [exists |-> FALSE, content |-> <<>>]
File(content) == [exists |-> TRUE, content |-> content]
\* a backup log left by an earlier execution
OldLog == File(<<"o", "l", "d", NL>>)

\* str(n)
IntText(n) == IF n < 0 THEN <<"-">> \o IntToStr(0 - n) ELSE IntToStr(n)

\* json.dump with default=str: a Python int is written as a JSON number, a
\* numpy integer as the JSON string of its decimal form
JsonValue(x) ==
    [json |-> IF x.ty = "int64" THEN "string" ELSE "number", text |-> IntText(x.v)]

\* one MetricSample as json.dump writes it
JsonSample(e) ==
    [size     |-> JsonValue(e.size),
     elements |-> JsonValue(e.elements),
     type     |-> e.type,
     redop    |-> e.redop,
     root     |-> JsonValue(e.root),
     op_time  |-> e.op_time,
     op_algbw |-> e.op_algbw,
     op_busbw |-> e.op_busbw,
     op_wrong |-> JsonValue(e.op_wrong),
     ip_time  |-> e.ip_time,
     ip_algbw |-> e.ip_algbw,
     ip_busbw |-> e.ip_busbw,
     ip_wrong |-> JsonValue(e.ip_wrong)]

\* one RevisionRecord as json.dump writes it
JsonRecord(r) ==
    [index  |-> r.index,
     commit |-> r.commit,
     data   |-> [k \in 1..Len(r.data) |-> JsonSample(r.data[k])]]

\* the chunks json.dump writes: punctuation and the text of one record
Punct(p) == [chunk |-> p, rec |-> <<>>]
RecChunk(r) == [chunk |-> "record", rec |-> <<JsonRecord(r)>>]

RECURSIVE JsonItems(_)
JsonItems(rs) ==
    IF rs = <<>> THEN <<>>
    ELSE IF Len(rs) = 1 THEN <<RecChunk(rs[1])>>
    ELSE <<RecChunk(rs[1]), Punct(",")>> \o JsonItems(Tail(rs))

\* variant: only the newest record is written
Serialize_OnlyNewest(rs) ==
    <<Punct("[")>> \o JsonItems(IF rs = <<>> THEN rs ELSE <<rs[Len(rs)]>>)
                   \o <<Punct("]")>>

\* json.dump(results, f, default=str, indent=2): the chunks written, in order
Serialize(rs) == <<Punct("[")>> \o JsonItems(rs) \o <<Punct("]")>>

RECURSIVE IsJsonItems(_)
\* records separated by commas
IsJsonItems(cs) ==
    /\ cs # <<>>
    /\ cs[1].chunk = "record"
    /\ \/ Len(cs) = 1
       \/ Len(cs) >= 3 /\ cs[2] = Punct(",") /\ IsJsonItems(SubSeq(cs, 3, Len(cs)))

\* json.load (viz.py:132-134) accepts the content as an array of records
ValidJson(cs) ==
    /\ Len(cs) >= 2
    /\ cs[1] = Punct("[")
    /\ cs[Len(cs)] = Punct("]")
    /\ Len(cs) = 2 \/ IsJsonItems(SubSeq(cs, 2, Len(cs) - 1))

\* the records json.load returns for a valid content
LoadRecords(cs) ==
    LET recs == SelectSeq(cs, LAMBDA c : c.chunk = "record")
    IN  [k \in 1..Len(recs) |-> recs[k].rec[1]]

\* a checkpoint left by an earlier execution
OldCheckpoint ==
    File(Serialize(<< [index |-> 0, commit |-> <<"o", "l", "d">>, data |-> <<>>] >>))

(***************************************************************************)
(* State of one execution of perfmetricsRun.py.                            *)
(***************************************************************************)
VARIABLES
    pc,            \* position of the script
    lastNCommits,  \* the enumerated revisions
    idx,           \* loop index
    librccl,       \* artifact path
    buildOutput,   \* what build_rccl printed of a failed build in this iteration
    proc,          \* the benchmark process of this iteration: output and exit status
    outputlog,     \* text returned by run_rccl_test
    data,          \* result of parse_rccl_tests_output
    results,       \* the result list
    backup,        \* backup/<commit>.log files
    output_json,   \* the results.json file
    abort,         \* the exception that ended the script, or NoError
    events         \* the calls made so far, in order

vars == <<pc, lastNCommits, idx, librccl, buildOutput, proc, outputlog, data,
          results, backup, output_json, abort, events>>

NoOutput == [failed |-> FALSE, text |-> <<>>]
NoError == [at |-> "none", exc |-> "none"]
NoProc == [out |-> <<>>, exit |-> 0]

\* getLibrcclPath(scratch_workdir) and the value build_rccl returns
ArtifactPath == "rccl/build/debug/librccl.so.1.0"

AllCommits == {CommitOf(i) : i \in 0..(MaxRevs - 1)}

Min(a, b) == IF a < b THEN a ELSE b

Init ==
    /\ pc = "enumerate"
    /\ lastNCommits = <<>>
    /\ idx = 0
    /\ librccl = ArtifactPath
    /\ buildOutput = NoOutput
    /\ proc = NoProc
    /\ outputlog = <<>>
    /\ data = <<>>
    /\ results = <<>>
    \* the scratch directory is empty or holds the files of an earlier execution
    /\ \/ backup = [c \in AllCommits |-> Absent] /\ output_json = Absent
       \/ backup = [c \in AllCommits |-> OldLog] /\ output_json = OldCheckpoint
    /\ abort = NoError
    /\ events = <<>>

Event(op) == [op |-> op, idx |-> idx]

\* an uncaught exception ends the script
Raise(exc) ==
    /\ abort' = [at |-> pc, exc |-> exc]
    /\ pc' = "aborted"

commit == lastNCommits[idx + 1]

\* variant: a failed enumeration is reported and yields no revisions
get_last_n_commit_hashes_EmptyOnError ==
    /\ pc = "enumerate"
    /\ events' = Append(events, Event("enumerate"))
    /\ \/ /\ abort' = [at |-> pc, exc |-> "ValueError"]
          /\ lastNCommits' = <<>>
          /\ pc' = "flush"
       \/ /\ abort' = [at |-> pc, exc |-> "RuntimeError"]
          /\ lastNCommits' = <<>>
          /\ pc' = "flush"
       \/ \E n \in 0..Min(MaxRevs, NumCommits) :
             /\ lastNCommits' = [k \in 1..n |-> CommitOf(k - 1)]
             /\ pc' = IF n = 0 THEN "flush" ELSE "build"
             /\ UNCHANGED abort
    /\ UNCHANGED <<idx, librccl, buildOutput, proc, outputlog, data, results,
                   backup, output_json>>

(***************************************************************************)
(* get_last_n_commit_hashes (common.py:14-29), called at                   *)
(* perfmetricsRun.py:39; results = [] at line 40.                          *)
(***************************************************************************)
get_last_n_commit_hashes ==
    /\ pc = "enumerate"
    /\ events' = Append(events, Event("enumerate"))
    /\ \/ /\ Raise("ValueError")          \* not os.path.isdir(repo_path)
          /\ UNCHANGED lastNCommits
       \/ /\ Raise("RuntimeError")        \* git log exits non-zero
          /\ UNCHANGED lastNCommits
       \/ \E n \in 0..Min(MaxRevs, NumCommits) :
             /\ lastNCommits' = [k \in 1..n |-> CommitOf(k - 1)]
             /\ pc' = IF n = 0 THEN "flush" ELSE "build"
             /\ UNCHANGED abort
    /\ UNCHANGED <<idx, librccl, buildOutput, proc, outputlog, data, results,
                   backup, output_json>>

\* variant: the CalledProcessError of install.sh is not caught
build_rccl_Uncaught ==
    /\ pc = "build"
    /\ BUILD_RCCL = 1
    /\ events' = Append(events, Event("build"))
    /\ \/ /\ Raise("FileNotFoundError")
          /\ UNCHANGED <<librccl, buildOutput>>
       \/ /\ Raise("CalledProcessError")
          /\ UNCHANGED <<librccl, buildOutput>>
       \/ \E o \in BuildOutputs :
             /\ buildOutput' = [failed |-> TRUE, text |-> o]
             /\ Raise("CalledProcessError")
             /\ UNCHANGED librccl
       \/ /\ buildOutput' = NoOutput
          /\ librccl' = ArtifactPath
          /\ pc' = "run"
          /\ UNCHANGED abort
    /\ UNCHANGED <<lastNCommits, idx, proc, outputlog, data, results, backup,
                   output_json>>

(***************************************************************************)
(* build_rccl (common.py:89-120), called at perfmetricsRun.py:43-44.       *)
(***************************************************************************)
build_rccl ==
    /\ pc = "build"
    /\ BUILD_RCCL = 1
    /\ events' = Append(events, Event("build"))
    /\ \/ /\ Raise("FileNotFoundError")   \* rccl_dir does not exist
          /\ UNCHANGED <<librccl, buildOutput>>
       \/ /\ Raise("CalledProcessError")  \* git checkout exits non-zero
          /\ UNCHANGED <<librccl, buildOutput>>
       \/ /\ Raise("FileNotFoundError")   \* install.sh does not exist
          /\ UNCHANGED <<librccl, buildOutput>>
       \/ \E o \in BuildOutputs :         \* install.sh exits non-zero
             /\ buildOutput' = [failed |-> TRUE, text |-> o]
             /\ librccl' = ArtifactPath
             /\ pc' = "run"
             /\ UNCHANGED abort
       \/ /\ buildOutput' = NoOutput      \* build completed
          /\ librccl' = ArtifactPath
          /\ pc' = "run"
          /\ UNCHANGED abort
    /\ UNCHANGED <<lastNCommits, idx, proc, outputlog, data, results, backup,
                   output_json>>

\* variant: on a non-zero exit the captured output is dropped
run_rccl_test_DropsOutput ==
    /\ pc = "run"
    /\ events' = Append(events, Event("run"))
    /\ \/ /\ Raise("OSError")
          /\ UNCHANGED <<proc, outputlog>>
       \/ \E out \in RunOutputs, exit \in {0, 1} :
             /\ proc' = [out |-> out, exit |-> exit]
             /\ outputlog' = IF exit = 0 THEN out ELSE <<>>
             /\ pc' = "parse"
             /\ UNCHANGED abort
    /\ UNCHANGED <<lastNCommits, idx, librccl, buildOutput, data, results,
                   backup, output_json>>

(***************************************************************************)
(* run_rccl_test (common.py:159-229), called at perfmetricsRun.py:48.      *)
(***************************************************************************)
run_rccl_test ==
    /\ pc = "run"
    /\ events' = Append(events, Event("run"))
    /\ \/ /\ Raise("OSError")             \* the binary cannot be started
          /\ UNCHANGED <<proc, outputlog>>
       \/ \E out \in RunOutputs, exit \in {0, 1} :
             /\ proc' = [out |-> out, exit |-> exit]
             \* str(result.stdout) on exit 0, str(e.output) otherwise
             /\ outputlog' = IF exit = 0 THEN out ELSE out
             /\ pc' = "parse"
             /\ UNCHANGED abort
    /\ UNCHANGED <<lastNCommits, idx, librccl, buildOutput, data, results,
                   backup, output_json>>

(***************************************************************************)
(* perfmetricsRun.py:49   data = parse_rccl_tests_output(outputlog)        *)
(***************************************************************************)
Parse ==
    /\ pc = "parse"
    /\ events' = Append(events, Event("parse"))
    /\ LET r == parse_rccl_tests_output(outputlog)
       IN  IF r.raised
           THEN Raise(r.exc) /\ UNCHANGED data
           ELSE data' = r.data /\ pc' = "append" /\ UNCHANGED abort
    /\ UNCHANGED <<lastNCommits, idx, librccl, buildOutput, proc, outputlog,
                   results, backup, output_json>>

\* variant: a due checkpoint is taken before the backup log is written
AppendRecord_ThenCheckpoint ==
    /\ pc = "append"
    /\ events' = Append(events, Event("append"))
    /\ results' = Append(results, [index |-> idx, commit |-> commit, data |-> data])
    /\ pc' = IF idx % CheckpointInterval = 0 THEN "checkpoint" ELSE "log"
    /\ UNCHANGED <<lastNCommits, idx, librccl, buildOutput, proc, outputlog,
                   data, backup, output_json, abort>>

\* variant: a revision whose build failed is skipped
AppendRecord_SkipFailedBuild ==
    /\ pc = "append"
    /\ events' = Append(events, Event("append"))
    /\ results' = IF buildOutput.failed THEN results
                  ELSE Append(results, [index |-> idx, commit |-> commit, data |-> data])
    /\ pc' = "log"
    /\ UNCHANGED <<lastNCommits, idx, librccl, buildOutput, proc, outputlog,
                   data, backup, output_json, abort>>

\* variant: a revision without data is skipped
AppendRecord_SkipEmpty ==
    /\ pc = "append"
    /\ events' = Append(events, Event("append"))
    /\ results' = IF data = <<>> THEN results
                  ELSE Append(results, [index |-> idx, commit |-> commit, data |-> data])
    /\ pc' = "log"
    /\ UNCHANGED <<lastNCommits, idx, librccl, buildOutput, proc, outputlog,
                   data, backup, output_json, abort>>

(***************************************************************************)
(* perfmetricsRun.py:50   results.append({...})                            *)
(***************************************************************************)
AppendRecord ==
    /\ pc = "append"
    /\ events' = Append(events, Event("append"))
    /\ results' = Append(results, [index |-> idx, commit |-> commit, data |-> data])
    /\ pc' = "log"
    /\ UNCHANGED <<lastNCommits, idx, librccl, buildOutput, proc, outputlog,
                   data, backup, output_json, abort>>

\* variant: the checkpoint is taken every fifth revision
CheckpointDue_EveryFifth(i) == i % (CheckpointInterval + 1) = 0

\* variant: the checkpoint falls on the last revision of each group of four
CheckpointDue_LastOfGroup(i) == i % CheckpointInterval = CheckpointInterval - 1

\* perfmetricsRun.py:53   if idx%4 == 0
CheckpointDue(i) == i % CheckpointInterval = 0

\* the end of one loop iteration: the next revision, or the end of the loop
NextRevision ==
    /\ IF idx + 1 < Len(lastNCommits)
       THEN pc' = "build" /\ idx' = idx + 1
       ELSE pc' = "flush" /\ idx' = idx
    /\ buildOutput' = NoOutput
    /\ proc' = NoProc

\* variant: the log is opened with "a" and keeps its earlier content
write_to_log_AppendMode ==
    /\ pc = "log"
    /\ events' = Append(events, Event("log"))
    /\ \/ backup' = [backup EXCEPT
                        ![commit] = File(backup[commit].content \o outputlog \o <<NL>>)]
       \/ UNCHANGED backup
    /\ IF CheckpointDue(idx)
       THEN pc' = "checkpoint" /\ UNCHANGED <<idx, buildOutput, proc>>
       ELSE NextRevision
    /\ UNCHANGED <<lastNCommits, librccl, outputlog, data, results,
                   output_json, abort>>

\* variant: the printed build output is written to the log as well
write_to_log_WithBuildOutput ==
    /\ pc = "log"
    /\ events' = Append(events, Event("log"))
    /\ \/ backup' = [backup EXCEPT
                        ![commit] = File(buildOutput.text \o outputlog \o <<NL>>)]
       \/ UNCHANGED backup
    /\ IF CheckpointDue(idx)
       THEN pc' = "checkpoint" /\ UNCHANGED <<idx, buildOutput, proc>>
       ELSE NextRevision
    /\ UNCHANGED <<lastNCommits, librccl, outputlog, data, results,
                   output_json, abort>>

(***************************************************************************)
(* write_to_log (perfmetricsRun.py:13-21), called at line 51, and the test *)
(* at line 53.                                                             *)
(***************************************************************************)
write_to_log ==
    /\ pc = "log"
    /\ events' = Append(events, Event("log"))
    /\ \/ backup' = [backup EXCEPT ![commit] = File(outputlog \o <<NL>>)]
       \/ UNCHANGED backup                \* makedirs or open raised: caught
    /\ IF CheckpointDue(idx)
       THEN pc' = "checkpoint" /\ UNCHANGED <<idx, buildOutput, proc>>
       ELSE NextRevision
    /\ UNCHANGED <<lastNCommits, librccl, outputlog, data, results,
                   output_json, abort>>

(***************************************************************************)
(* with open(output_json, "w") as f: json.dump(results, f, ...)            *)
(* (perfmetricsRun.py:54-55 and 56-57).  open truncates the file, then     *)
(* json.dump writes the chunks one by one.  The value is the set of        *)
(* outcomes: the file left behind and the way the statement ended.         *)
(***************************************************************************)
Persist_AppendMode(rs, file) ==
    \* variant: the file is opened with "a" and keeps its content
    {[file |-> File(file.content \o Serialize(rs)), end |-> "ok"],
     [file |-> file, end |-> "OSError"]}
    \cup {[file |-> File(file.content \o SubSeq(Serialize(rs), 1, k)), end |-> e] :
            k \in 0..Min(MaxPartial, Len(Serialize(rs)) - 1),
            e \in {"OSError", "killed"}}

Persist(rs, file) ==
    {[file |-> File(Serialize(rs)), end |-> "ok"],
     [file |-> file, end |-> "OSError"]}                  \* open raised
    \cup {[file |-> File(SubSeq(Serialize(rs), 1, k)), end |-> e] :
            k \in 0..Min(MaxPartial, Len(Serialize(rs)) - 1),
            e \in {"OSError", "killed"}}                  \* stopped while writing

\* variant: an exception of the write is reported and the script goes on
Ended_Reported(o, next) ==
    IF o.end = "ok" THEN next /\ UNCHANGED abort
    ELSE IF o.end = "killed"
         THEN /\ pc' = "killed" /\ abort' = [at |-> pc, exc |-> "killed"]
              /\ UNCHANGED <<idx, buildOutput, proc>>
         ELSE next /\ abort' = [at |-> pc, exc |-> o.end]

\* the statement ends: normally, by an uncaught exception, or with the process
Ended(o, next) ==
    IF o.end = "ok" THEN next /\ UNCHANGED abort
    ELSE IF o.end = "killed"
         THEN /\ pc' = "killed" /\ abort' = [at |-> pc, exc |-> "killed"]
              /\ UNCHANGED <<idx, buildOutput, proc>>
         ELSE Raise(o.end) /\ UNCHANGED <<idx, buildOutput, proc>>

\* perfmetricsRun.py:53-55
Checkpoint ==
    /\ pc = "checkpoint"
    /\ events' = Append(events, Event("checkpoint"))
    /\ \E o \in Persist(results, output_json) :
          /\ output_json' = o.file
          /\ Ended(o, NextRevision)
    /\ UNCHANGED <<lastNCommits, librccl, outputlog, data, results, backup>>

\* perfmetricsRun.py:56-57
Flush ==
    /\ pc = "flush"
    /\ events' = Append(events, Event("flush"))
    /\ \E o \in Persist(results, output_json) :
          /\ output_json' = o.file
          /\ Ended(o, pc' = "done" /\ UNCHANGED <<idx, buildOutput, proc>>)
    /\ UNCHANGED <<lastNCommits, librccl, outputlog, data, results, backup>>

Next ==
    \/ get_last_n_commit_hashes
    \/ build_rccl
    \/ run_rccl_test
    \/ Parse
    \/ AppendRecord
    \/ write_to_log
    \/ Checkpoint
    \/ Flush

Spec == Init /\ [][Next]_vars

(***************************************************************************)
(* The parser on its own: one call of parse_rccl_tests_output on a text.   *)
(***************************************************************************)
ParseInit ==
    /\ pc = "parse"
    /\ lastNCommits = <<CommitOf(0)>>
    /\ idx = 0
    /\ librccl = ArtifactPath
    /\ buildOutput = NoOutput
    /\ proc = NoProc
    /\ outputlog \in ParseTexts
    /\ data = <<>>
    /\ results = <<>>
    /\ backup = [c \in AllCommits |-> Absent]
    /\ output_json = Absent
    /\ abort = NoError
    /\ events = <<>>

ParseNext == Parse

ParseSpec == ParseInit /\ [][ParseNext]_vars

(***************************************************************************)
(* Properties of the sweep.                                                *)
(***************************************************************************)
N == Len(lastNCommits)

\* the writes of results.json made so far, in order
PersistEvents == SelectSeq(events, LAMBDA e : e.op \in {"checkpoint", "flush"})

\* C1 as stated: a completed sweep of 5 revisions has written results.json
\* exactly twice, after revision index 0 and after revision index 4.
C1_TwoPersists ==
    (pc = "done" /\ N = 5) =>
        /\ Len(PersistEvents) = 2
        /\ PersistEvents[1].idx = 0
        /\ PersistEvents[2].idx = 4

\* C1: a completed sweep of 5 revisions has written results.json exactly
\* three times: in the loop after revision index 0, in the loop after revision
\* index 4 (4 % 4 = 0), and once more after the loop; never after revisions
\* 1, 2 or 3.
C1_ThreePersists ==
    (pc = "done" /\ N = 5) =>
        PersistEvents = << [op |-> "checkpoint", idx |-> 0],
                           [op |-> "checkpoint", idx |-> 4],
                           [op |-> "flush", idx |-> 4] >>

C1_Witness == pc = "done" /\ N = 5 /\ Len(PersistEvents) = 3

\* the file is as the script found it, or the complete serialization of the
\* result list as it was at some persist
CompleteSnapshot ==
    \/ output_json \in {Absent, OldCheckpoint}
    \/ \E k \in 0..Len(results) : output_json = File(Serialize(SubSeq(results, 1, k)))

\* the file holds the first chunks of the serialization of the result list
TruncatedSnapshot ==
    \E j \in 0..(Len(Serialize(results)) - 1) :
        output_json = File(SubSeq(Serialize(results), 1, j))

\* C2 as stated: in every reachable state, a stop in the middle of a persist
\* included, results.json is absent or a complete serialization of the result
\* list as of some persist.
C2_AtomicReplace == CompleteSnapshot

\* C2: results.json is a complete serialization of the result list as of some
\* persist (or as the script found it) unless a persist was cut short by an
\* I/O error or by the end of the process; then it may be left empty or
\* truncated to the first chunks of the serialization being written.
C2_ReplaceNotAtomic ==
    /\ abort.at \notin {"checkpoint", "flush"} => CompleteSnapshot
    /\ abort.at \in {"checkpoint", "flush"} => CompleteSnapshot \/ TruncatedSnapshot

C2_Witness ==
    /\ pc = "killed"
    /\ abort.at = "checkpoint"
    /\ idx = 4
    /\ output_json = File(SubSeq(Serialize(results), 1, 1))
    /\ ~CompleteSnapshot

\* C3 as stated: an I/O error of the checkpoint write at revision i does not
\* end the sweep.
C3_FailureDoesNotAbort ==
    (abort.at = "checkpoint" /\ abort.exc = "OSError") => pc # "aborted"

\* C3: an I/O error of the checkpoint write at revision i is not caught: it
\* ends the script there; the checkpoint is the last call made, revision i is
\* the last one processed, and nothing runs after the abort.
C3_FailureAborts ==
    /\ [](  (abort.at = "checkpoint" /\ abort.exc = "OSError") =>
              /\ pc = "aborted"
              /\ events[Len(events)] = [op |-> "checkpoint", idx |-> idx]
              /\ Len(results) = idx + 1)
    /\ [][pc # "aborted"]_vars

C3_Witness ==
    /\ pc = "aborted"
    /\ abort = [at |-> "checkpoint", exc |-> "OSError"]
    /\ idx = 0
    /\ N > 1

\* the exceptions that end the script, by the call that raises them
AbortCauses ==
    { <<"enumerate", "ValueError">>, <<"enumerate", "RuntimeError">>,
      <<"build", "FileNotFoundError">>, <<"build", "CalledProcessError">>,
      <<"run", "OSError">>, <<"parse", "ValueError">>,
      <<"parse", "OverflowError">>,
      <<"checkpoint", "OSError">>, <<"flush", "OSError">> }

\* C4 as stated: after enumeration only an I/O error at the checkpoint path
\* stops the loop before the last revision.
C4_OnlyCheckpointFatal ==
    pc = "aborted" => abort.at \in {"enumerate", "checkpoint", "flush"}

\* C4: once enumeration has succeeded the loop reaches the final flush only
\* with one record per enumerated revision, and it is stopped early by exactly
\* these failures: a missing repository directory, a failed checkout or a
\* missing install.sh in build_rccl, a benchmark binary that cannot be
\* started, an exception in the parser, and an I/O error of the checkpoint
\* write.  A non-zero exit of install.sh or of the benchmark does not stop it.
C4_AbortCauses ==
    /\ pc = "aborted" => <<abort.at, abort.exc>> \in AbortCauses
    /\ (pc = "aborted" /\ buildOutput.failed) => abort.at # "build"
    /\ (pc = "aborted" /\ proc.exit # 0) => abort.at # "run"
    /\ pc \in {"flush", "done"} => Len(results) = N

C4_Witness ==
    /\ pc = "aborted"
    /\ abort = [at |-> "run", exc |-> "OSError"]
    /\ buildOutput.failed
    /\ idx >= 1

\* the record the loop appends for the revision at idx
RecordOf(i) == [index |-> i, commit |-> lastNCommits[i + 1], data |-> data]

FilesAsFound ==
    \/ output_json = Absent /\ \A c \in AllCommits : backup[c] = Absent
    \/ output_json = OldCheckpoint /\ \A c \in AllCommits : backup[c] = OldLog

\* C8: a failed enumeration ends the script before any build, benchmark run,
\* backup-log write or checkpoint write; the revisions are listed exactly
\* once, as the first call.
C8_EnumerationFailureAborts ==
    /\ abort.at = "enumerate" =>
          /\ pc = "aborted"
          /\ events = << [op |-> "enumerate", idx |-> 0] >>
          /\ results = <<>>
          /\ FilesAsFound
    /\ events # <<>> =>
          /\ events[1].op = "enumerate"
          /\ \A k \in 2..Len(events) : events[k].op # "enumerate"

C8_Witness ==
    /\ pc = "aborted"
    /\ abort = [at |-> "enumerate", exc |-> "RuntimeError"]
    /\ output_json = OldCheckpoint

\* C9: after a completed sweep of N revisions the result list holds N records
\* with index 0..N-1 in order, record i carrying the i-th revision id, and
\* results.json holds exactly these records; a revision whose output gave
\* no data has its record too, with empty data.
C9_CompletedSweepRecords ==
    /\ pc = "done" =>
          /\ Len(results) = N
          /\ \A k \in 1..Len(results) :
                results[k].index = k - 1 /\ results[k].commit = lastNCommits[k]
          /\ output_json.exists
          /\ ValidJson(output_json.content)
          /\ LoadRecords(output_json.content)
                = [k \in 1..N |-> JsonRecord(results[k])]
    /\ pc = "log" =>
          /\ Len(results) = idx + 1
          /\ results[idx + 1].data = parse_rccl_tests_output(outputlog).data

C9_Witness ==
    /\ pc = "done"
    /\ N >= 3
    /\ results[1].data = <<>>
    /\ results[2].data # <<>>
    /\ Len(LoadRecords(output_json.content)) = N

\* C10: a persist that completes after revision i leaves in results.json
\* exactly the first i+1 records, in index order, whatever the file held
\* before.
C10_PersistWritesAll ==
    [][ (pc \in {"checkpoint", "flush"} /\ pc' \notin {"aborted", "killed"}) =>
          /\ output_json'.exists
          /\ ValidJson(output_json'.content)
          /\ LoadRecords(output_json'.content)
                = [k \in 1..Len(results) |-> JsonRecord(results[k])]
          /\ N > 0 => Len(results) = idx + 1
          /\ \A k \in 1..Len(results) : results[k].index = k - 1 ]_vars

C10_Witness ==
    /\ pc = "flush"
    /\ idx = 4
    /\ \E c \in AllCommits : backup[c] = OldLog
    /\ events[Len(events)] = [op |-> "checkpoint", idx |-> 4]
    /\ Len(LoadRecords(output_json.content)) = 5

\* the lines of the text given to the parser
InputLines == SplitLines(outputlog)

\* the error count the specification gives for a "#wrong" token
ExpectedCount(t) == IF IsIntTok(t) THEN ToInt(t) ELSE 0

\* C11 as stated: for a one-line text whose line conforms to Layout A or
\* Layout B in every field but the two error counts, the parser returns one
\* sample, and each of its two error counts is the integer written by the
\* token when the token is an optionally minus-signed digit string and 0 for
\* every other token.
C11_ErrorCountsDefaultToZero ==
    (pc # "parse" /\ outputlog \in ErrTexts) =>
        /\ pc = "append"
        /\ Len(data) = 1
        /\ LET c == Split(outputlog)
               i == Len(c) - 12
           IN  /\ data[1].op_wrong.v = ExpectedCount(c[8 + i])
               /\ data[1].ip_wrong.v = ExpectedCount(c[12 + i])

\* a line of exactly 13 tokens that matches regexstr1
ValidA(l) == ~StartsWithComment(l) /\ Len(Split(l)) = 13 /\ Match1(l)
\* a line of exactly 12 tokens that matches regexstr2
ValidB(l) == ~StartsWithComment(l) /\ Len(Split(l)) = 12 /\ Match2(l)

\* the sample of a Layout A line: the operator is token 4, the rest tokens 5..13
SampleA(c) ==
    [size     |-> ToInt64(c[1]),  elements |-> ToInt64(c[2]),
     type     |-> c[3],           redop    |-> c[4],
     root     |-> ToInt64(c[5]),
     op_time  |-> ToFloat(c[6]),  op_algbw |-> ToFloat(c[7]),
     op_busbw |-> ToFloat(c[8]),  op_wrong |-> WrongCount(c[9]),
     ip_time  |-> ToFloat(c[10]), ip_algbw |-> ToFloat(c[11]),
     ip_busbw |-> ToFloat(c[12]), ip_wrong |-> WrongCount(c[13])]

\* the sample of a Layout B line: the operator is "none", the rest tokens 4..12
SampleB(c) ==
    [size     |-> ToInt64(c[1]),  elements |-> ToInt64(c[2]),
     type     |-> c[3],           redop    |-> <<"n", "o", "n", "e">>,
     root     |-> ToInt64(c[4]),
     op_time  |-> ToFloat(c[5]),  op_algbw |-> ToFloat(c[6]),
     op_busbw |-> ToFloat(c[7]),  op_wrong |-> WrongCount(c[8]),
     ip_time  |-> ToFloat(c[9]),  ip_algbw |-> ToFloat(c[10]),
     ip_busbw |-> ToFloat(c[11]), ip_wrong |-> WrongCount(c[12])]

\* C12: when the parser returns, every 13-token line that matches the Layout A
\* pattern has a sample with the operator taken from token 4 and the other
\* fields from tokens 5..13, also when the line matches the Layout B pattern
\* as a prefix; every 12-token line that matches the Layout B pattern has a
\* sample with the operator "none" and the other fields from tokens 4..12, and
\* is not given the Layout A shift.
C12_LayoutMapping ==
    pc = "append" =>
        \A n \in 1..Len(InputLines) :
            LET l == InputLines[n]
                c == Split(l)
            IN  /\ ValidA(l) => \E k \in 1..Len(data) : data[k] = SampleA(c)
                /\ ValidB(l) =>
                      /\ \E k \in 1..Len(data) : data[k] = SampleB(c)
                      /\ LayoutShift(l) = 0

C12_Witness ==
    /\ pc = "append"
    /\ outputlog = TextOf(<<LineBoth, LineB, LineA>>)
    /\ Match2(LineBoth)
    /\ Len(data) = 3
    /\ data[1].redop = <<"0">>
    /\ data[2].redop = <<"n", "o", "n", "e">>
    /\ data[3].redop = <<"s">>

\* C13: when the parser returns, the samples are the samples of some of the
\* input lines, one sample per line at most and in the order of the lines, and
\* none of them comes from a line that starts with "##" or that has fewer than
\* 12 tokens.
C13_SkippedLinesAndOrder ==
    pc = "append" =>
        \E f \in [1..Len(data) -> 1..Len(InputLines)] :
            /\ \A j, k \in 1..Len(data) : j < k => f[j] < f[k]
            /\ \A k \in 1..Len(data) :
                  LET l == InputLines[f[k]]
                  IN  /\ ~StartsWithComment(l)
                      /\ Len(Split(l)) >= 12
                      /\ ~LineSkipped(l)
                      /\ data[k] = Entry(Split(l), LayoutShift(l))

C13_Witness ==
    /\ pc = "append"
    /\ Len(InputLines) = 3
    /\ StartsWithComment(InputLines[1])
    /\ Len(Split(InputLines[1])) >= 12
    /\ Len(data) = 2
    /\ data[1] # data[2]

\* C14 as stated: the parser raises for no text; every line becomes a sample
\* or is dropped.
C14_ParserNeverRaises == pc = "aborted" => abort.at # "parse"

Follows(e, g) ==
    LET sameRev == g.idx = e.idx
        nextRev == g = [op |-> "build", idx |-> e.idx + 1]
        atEnd   == g = [op |-> "flush", idx |-> e.idx]
    IN  CASE e.op = "enumerate"  -> g.idx = 0 /\ g.op \in {"build", "flush"}
          [] e.op = "build"      -> sameRev /\ g.op = "run"
          [] e.op = "run"        -> sameRev /\ g.op = "parse"
          [] e.op = "parse"      -> sameRev /\ g.op = "append"
          [] e.op = "append"     -> sameRev /\ g.op = "log"
          [] e.op = "log"        -> IF e.idx % 4 = 0
                                    THEN sameRev /\ g.op = "checkpoint"
                                    ELSE nextRev \/ atEnd
          [] e.op = "checkpoint" -> nextRev \/ atEnd
          [] OTHER               -> FALSE

\* C16: the calls of the sweep are made one after the other in the order
\* build, run, parse, append, log write and, when due, checkpoint, revision
\* after revision; whenever results.json is about to be written, the log
\* write of every record in the result list has been attempted.
C16_StepsInOrder ==
    /\ events # <<>> => events[1] = [op |-> "enumerate", idx |-> 0]
    /\ \A k \in 1..(Len(events) - 1) : Follows(events[k], events[k + 1])
    /\ pc \in {"checkpoint", "flush"} =>
          \A k \in 1..Len(results) :
             \E j \in 1..Len(events) :
                events[j] = [op |-> "log", idx |-> results[k].index]

C16_Witness ==
    /\ pc = "done"
    /\ N = 5
    /\ Len(events) = 29
    /\ events[7] = [op |-> "checkpoint", idx |-> 0]
    /\ events[8] = [op |-> "build", idx |-> 1]

\* the loop is between two iterations, or past its last iteration
AtRevisionBoundary == (pc = "build" /\ idx >= 1) \/ (pc = "flush" /\ N >= 1)

\* the records of results.json are the first records of the result list
FileIsPrefixOfResults ==
    /\ output_json.exists
    /\ ValidJson(output_json.content)
    /\ LET f == LoadRecords(output_json.content)
       IN  /\ Len(f) <= Len(results)
           /\ \A k \in 1..Len(f) : f[k] = JsonRecord(results[k])

\* C17: between two loop iterations and at the end of the last one, the
\* records of results.json are the first records of the result list and the
\* list has at most 3 more; once the script has finished, results.json holds
\* the whole list.
C17_CheckpointLag ==
    /\ AtRevisionBoundary =>
          /\ FileIsPrefixOfResults
          /\ Len(results) - Len(LoadRecords(output_json.content)) <= 3
    /\ pc = "done" =>
          /\ FileIsPrefixOfResults
          /\ Len(LoadRecords(output_json.content)) = Len(results)

C17_Witness ==
    /\ pc = "build"
    /\ idx = 4
    /\ Len(results) = 4
    /\ FileIsPrefixOfResults
    /\ Len(LoadRecords(output_json.content)) = 1

====
